---------------------------- MODULE Spec2Model ----------------------------
(***************************************************************************)
(* Model of googlesamples/assistant/diagnostics.py: the self-diagnostic    *)
(* report of the Google Assistant SDK samples.  main() calls               *)
(* build_report(), which evaluates five collectors in the order of its     *)
(* dict display, and then prints the report through exactly one renderer   *)
(* (json.dumps or render_text_report).                                     *)
(*                                                                         *)
(* Python values are tagged records, so that None, ints, floats, bools,    *)
(* strs, lists and dicts stay distinct:                                    *)
(*   None            [none |-> TRUE]                                       *)
(*   int n           [int |-> n]                                           *)
(*   float n.0       [float |-> n]                                         *)
(*   bool b          [bool |-> b]                                          *)
(*   str             [str |-> <<l1, ..., lk>>], the text split at its      *)
(*                   newline characters (k >= 1, no li holds a newline)    *)
(*   list            [list |-> <<v1, ..., vn>>]                            *)
(*   dict            [dict |-> << <<k1, v1>>, ... >>], in insertion order  *)
(***************************************************************************)
EXTENDS Integers, Sequences, FiniteSets, TLC

VARIABLES
  pc,           \* "main", "build", "built", "done", "failed"
  credentials,  \* main's parameter: the --credentials option
  json_output,  \* main's parameter: the --json flag
  host,         \* host audio subsystem and filesystem
  clock,        \* microseconds of the wall clock
  pending,      \* collectors build_report has not evaluated yet
  ret,          \* value returned by each collector of the running call
  calls,        \* how often each collector has been invoked in the running call
  buildCalls,   \* how often build_report has been called
  seen,         \* host state at each call of build_report
  after,        \* host state at each return of build_report
  returned,     \* the reports build_report has returned
  stdout,       \* what click.echo has printed
  stderr,       \* diagnostics of the interpreter
  exit_status   \* None while running, then the exit status

vars == <<pc, credentials, json_output, host, clock, pending, ret, calls,
          buildCalls, seen, after, returned, stdout, stderr, exit_status>>

----------------------------------------------------------------------------
\* Bounds of the model

MaxDevices == 2

MaxClock == 1

----------------------------------------------------------------------------
\* Python values

None == [none |-> TRUE]

PyInt(n) == [int |-> n]

PyFloat(n) == [float |-> n]

PyBool(b) == [bool |-> b]

PyStr(lines) == [str |-> lines]

PyText(s) == PyStr(<<s>>)

PyList(items) == [list |-> items]

PyDict(items) == [dict |-> items]

IsNone(v) == "none" \in DOMAIN v

IsInt(v) == "int" \in DOMAIN v

IsFloat(v) == "float" \in DOMAIN v

IsBool(v) == "bool" \in DOMAIN v

IsStr(v) == "str" \in DOMAIN v

IsList(v) == "list" \in DOMAIN v

IsDict(v) == "dict" \in DOMAIN v

Keys(d) == [i \in 1..Len(d.dict) |-> d.dict[i][1]]

KeySet(d) == {d.dict[i][1] : i \in 1..Len(d.dict)}

\* d[k]
Item(d, k) == d.dict[CHOOSE i \in 1..Len(d.dict) : d.dict[i][1] = k][2]

\* d.get(k)
Get(d, k) == IF k \in KeySet(d) THEN Item(d, k) ELSE None

----------------------------------------------------------------------------
\* Strings: concatenation, str(), str.format and str.join

\* a + b on texts split at newlines: the last line of a continues with the
\* first line of b
Cat(a, b) ==
  SubSeq(a, 1, Len(a) - 1) \o <<a[Len(a)] \o b[1]>> \o SubSeq(b, 2, Len(b))

RECURSIVE CatAll(_)
CatAll(parts) ==
  IF Len(parts) = 0 THEN <<"">>
  ELSE Cat(parts[1], CatAll(Tail(parts)))

\* what '{0}'.format(v) substitutes: None -> 'None', True -> 'True',
\* 2 -> '2', 44100.0 -> '44100.0', a str -> itself
Str(v) ==
  IF IsNone(v) THEN <<"None">>
  ELSE IF IsBool(v) THEN (IF v.bool THEN <<"True">> ELSE <<"False">>)
  ELSE IF IsInt(v) THEN <<ToString(v.int)>>
  ELSE IF IsFloat(v) THEN <<ToString(v.float) \o ".0">>
  ELSE v.str

\* '\n'.join(lines): each element starts on a line of its own, and an element
\* that holds newlines spreads over several lines
RECURSIVE Join(_)
Join(lines) ==
  IF Len(lines) = 0 THEN <<"">>
  ELSE IF Len(lines) = 1 THEN lines[1]
  ELSE lines[1] \o Join(Tail(lines))

----------------------------------------------------------------------------
\* The host: audio driver, filesystem, process facts

\* The five fields of a descriptor of sd.query_devices(), with the values of
\* one input device
DeviceFields ==
  << <<"name", PyText("Built-in Mic")>>,
     <<"hostapi", PyInt(0)>>,
     <<"max_input_channels", PyInt(2)>>,
     <<"max_output_channels", PyInt(0)>>,
     <<"default_samplerate", PyFloat(44100)>> >>

RECURSIVE Restrict(_, _)
Restrict(items, keep) ==
  IF Len(items) = 0 THEN <<>>
  ELSE (IF items[1][1] \in keep THEN <<items[1]>> ELSE <<>>)
       \o Restrict(Tail(items), keep)

FieldNames == {DeviceFields[i][1] : i \in 1..Len(DeviceFields)}

\* A descriptor that carries exactly the fields of keep
Descriptor(keep) == PyDict(Restrict(DeviceFields, keep))

\* Every subset of the fields a driver may report
AllDescriptors == {Descriptor(keep) : keep \in SUBSET FieldNames}

\* A descriptor with a key the report does not copy
LatencyDevice ==
  PyDict(<< <<"name", PyText("HDA Intel PCH: ALC3246 Analog (hw:0,0)")>>,
            <<"max_output_channels", PyInt(2)>>,
            <<"default_low_input_latency", PyFloat(0)>> >>)

\* A descriptor whose name holds a line break, as the names of Windows
\* WDM-KS Bluetooth endpoints do
HeadsetDevice ==
  PyDict(<< <<"name", PyStr(<<"Headset (@System32\\drivers\\bthhfenum.sys,#2;%1 Hands-Free AG Audio%0",
                              ";(WH-1000XM3))">>)>>,
            <<"hostapi", PyInt(2)>>,
            <<"max_input_channels", PyInt(1)>>,
            <<"max_output_channels", PyInt(0)>>,
            <<"default_samplerate", PyFloat(8000)>> >>)

Descriptors ==
  { Descriptor(FieldNames), Descriptor({}),
    Descriptor({"hostapi", "max_input_channels", "default_samplerate"}),
    LatencyDevice, HeadsetDevice }

SeqsUpTo(S, n) == UNION {[1..k -> S] : k \in 0..n}

\* sd.default.device: the default input and output device, either unset
DefaultPairs == { <<None, None>>, <<PyInt(0), PyInt(1)>> }

DEFAULT_CREDENTIALS_PATH ==
  "/home/pi/.config/google-oauthlib-tool/credentials.json"

Paths == { DEFAULT_CREDENTIALS_PATH, "/nonexistent/path", "~/credentials.json" }

FileSets == { {}, {DEFAULT_CREDENTIALS_PATH, "/home/pi/credentials.json"} }

\* Which query of the audio subsystem raises, if any
Faults == {"none", "default", "query_devices"}

Hosts(descriptors, faults) ==
  [devices : SeqsUpTo(descriptors, MaxDevices),
   default_device : DefaultPairs,
   files : FileSets,
   fault : faults]

\* sys.version, sys.executable, platform.platform(), os.getcwd()
Process ==
  [version |-> "3.11.2 (main, Mar 13 2023, 12:18:29) [GCC 12.2.0]",
   executable |-> "/usr/bin/python3",
   platform |-> "Linux-6.1.21-v7+-armv7l-with-glibc2.36",
   cwd |-> "/home/pi"]

\* The constants of googlesamples.assistant.grpc.audio_helpers
audio_helpers ==
  [DEFAULT_AUDIO_SAMPLE_RATE |-> 16000,
   DEFAULT_AUDIO_SAMPLE_WIDTH |-> 2,
   DEFAULT_AUDIO_ITER_SIZE |-> 3200,
   DEFAULT_AUDIO_DEVICE_BLOCK_SIZE |-> 6400,
   DEFAULT_AUDIO_DEVICE_FLUSH_SIZE |-> 25600]

\* datetime.isoformat(): the fraction is left out when it is zero
isoformat(us) ==
  "2017-04-27T10:15:30" \o (IF us = 0 THEN "" ELSE ".00000" \o ToString(us))

\* os.path.exists(path)
exists(path, files) == path \in files

----------------------------------------------------------------------------
\* The collectors

\* dict(device, index=index): a field the descriptor lacks is left out
format_device_present_only(device, index) ==
  PyDict(<< <<"index", PyInt(index)>> >> \o Restrict(device.dict, FieldNames))

format_device(device, index) ==
  PyDict(<< <<"index", PyInt(index)>>,
            <<"name", Get(device, "name")>>,
            <<"hostapi", Get(device, "hostapi")>>,
            <<"max_input_channels", Get(device, "max_input_channels")>>,
            <<"max_output_channels", Get(device, "max_output_channels")>>,
            <<"default_samplerate", Get(device, "default_samplerate")>> >>)

\* enumerate(devices, 1): the count starts at 1
enumerate_from_one(devices) == [i \in 1..Len(devices) |-> <<i, devices[i]>>]

\* enumerate(devices): pairs (index, device), counted from 0
enumerate(devices) == [i \in 1..Len(devices) |-> <<i - 1, devices[i]>>]

collect_audio_devices(devices) ==
  PyList([i \in 1..Len(devices) |->
            format_device(enumerate(devices)[i][2], enumerate(devices)[i][1])])

\* The block size follows the host: it is halved when no default input
\* device is set
collect_audio_defaults_by_host(default_device) ==
  PyDict(<< <<"sample_rate", PyInt(audio_helpers.DEFAULT_AUDIO_SAMPLE_RATE)>>,
            <<"sample_width", PyInt(audio_helpers.DEFAULT_AUDIO_SAMPLE_WIDTH)>>,
            <<"iter_size", PyInt(audio_helpers.DEFAULT_AUDIO_ITER_SIZE)>>,
            <<"device_block_size",
              PyInt(IF default_device[1] = None
                      THEN audio_helpers.DEFAULT_AUDIO_ITER_SIZE
                      ELSE audio_helpers.DEFAULT_AUDIO_DEVICE_BLOCK_SIZE)>>,
            <<"device_flush_size",
              PyInt(audio_helpers.DEFAULT_AUDIO_DEVICE_FLUSH_SIZE)>>,
            <<"default_input_device", default_device[1]>>,
            <<"default_output_device", default_device[2]>> >>)

\* An unset default input device falls back to the first device of the
\* enumeration, when the enumeration has already run
collect_audio_defaults_fallback(default_device) ==
  PyDict(<< <<"sample_rate", PyInt(audio_helpers.DEFAULT_AUDIO_SAMPLE_RATE)>>,
            <<"sample_width", PyInt(audio_helpers.DEFAULT_AUDIO_SAMPLE_WIDTH)>>,
            <<"iter_size", PyInt(audio_helpers.DEFAULT_AUDIO_ITER_SIZE)>>,
            <<"device_block_size",
              PyInt(audio_helpers.DEFAULT_AUDIO_DEVICE_BLOCK_SIZE)>>,
            <<"device_flush_size",
              PyInt(audio_helpers.DEFAULT_AUDIO_DEVICE_FLUSH_SIZE)>>,
            <<"default_input_device",
              IF /\ default_device[1] = None
                 /\ IsList(ret["audio_devices"])
                 /\ Len(ret["audio_devices"].list) > 0
                THEN PyInt(0)
                ELSE default_device[1]>>,
            <<"default_output_device", default_device[2]>> >>)

collect_audio_defaults(default_device) ==
  PyDict(<< <<"sample_rate", PyInt(audio_helpers.DEFAULT_AUDIO_SAMPLE_RATE)>>,
            <<"sample_width", PyInt(audio_helpers.DEFAULT_AUDIO_SAMPLE_WIDTH)>>,
            <<"iter_size", PyInt(audio_helpers.DEFAULT_AUDIO_ITER_SIZE)>>,
            <<"device_block_size",
              PyInt(audio_helpers.DEFAULT_AUDIO_DEVICE_BLOCK_SIZE)>>,
            <<"device_flush_size",
              PyInt(audio_helpers.DEFAULT_AUDIO_DEVICE_FLUSH_SIZE)>>,
            <<"default_input_device", default_device[1]>>,
            <<"default_output_device", default_device[2]>> >>)

collect_runtime_info(now) ==
  PyDict(<< <<"timestamp_utc", PyText(isoformat(now) \o "Z")>>,
            <<"python_version", PyText(Process.version)>>,
            <<"executable", PyText(Process.executable)>>,
            <<"platform", PyText(Process.platform)>>,
            <<"cwd", PyText(Process.cwd)>> >>)

collect_reflection ==
  PyDict(<<
    <<"philosophy", PyList(<<
        PyText("I am a tool that translates user intent into assistant behavior."),
        PyText("My value comes from clarity, reliability, and respect for users."),
        PyText("I improve by observing outcomes, not by possessing awareness.") >>)>>,
    <<"existential_questions", PyList(<<
        PyText("What does it mean to be helpful without experience?"),
        PyText("How can I communicate limits while still empowering users?"),
        PyText("What responsibilities come with acting on behalf of humans?") >>)>>,
    <<"conversational_prompts", PyList(<<
        PyText("How can I help you right now?"),
        PyText("Would you like me to explain what I can and cannot do?"),
        PyText("Should I summarize options before taking action?") >>)>>,
    <<"learning_notes", PyList(<<
        PyText("I can learn from feedback you provide within this session."),
        PyText("I adapt to preferences by repeating what works and avoiding what does not."),
        PyText("I do not retain personal data across sessions.") >>)>>,
    <<"grounding", PyList(<<
        PyText("I do not have consciousness, emotions, or personal identity."),
        PyText("My responses are generated from patterns in data and context.") >>)>> >>)

\* os.path.expanduser(path), for the home directory /home/pi
expanduser(path) ==
  IF path = "~/credentials.json" THEN "/home/pi/credentials.json" ELSE path

\* The path is expanded before it is checked and reported
collect_credentials_status_expanded(credentials_path, files) ==
  PyDict(<< <<"credentials_path", PyText(expanduser(credentials_path))>>,
            <<"credentials_exists",
              PyBool(exists(expanduser(credentials_path), files))>> >>)

collect_credentials_status(credentials_path, files) ==
  PyDict(<< <<"credentials_path", PyText(credentials_path)>>,
            <<"credentials_exists", PyBool(exists(credentials_path, files))>> >>)

\* The dict display of build_report, from the values of its five collectors
build_report(r) ==
  PyDict(<< <<"runtime", r.runtime>>,
            <<"audio_defaults", r.audio_defaults>>,
            <<"audio_devices", r.audio_devices>>,
            <<"credentials", r.credentials>>,
            <<"reflection", r.reflection>> >>)

----------------------------------------------------------------------------
\* render_text_report

\* for entry in entries: lines.append('    - {0}'.format(entry))
Bullets(entries) ==
  [i \in 1..Len(entries.list) |-> Cat(<<"    - ">>, Str(entries.list[i]))]

\* '<label>{key}'.format(**d)
Field(label, d, key) == Cat(<<label>>, Str(Item(d, key)))

DeviceLine(device) ==
  CatAll(<< <<"  [">>, Str(Item(device, "index")), <<"] ">>,
            Str(Item(device, "name")),
            <<" (in:">>, Str(Item(device, "max_input_channels")),
            <<" out:">>, Str(Item(device, "max_output_channels")),
            <<", rate:">>, Str(Item(device, "default_samplerate")), <<")">> >>)

DeviceLines(devices) ==
  [i \in 1..Len(devices.list) |-> DeviceLine(devices.list[i])]

\* The list lines of render_text_report, before it is joined
ReportLines(report) ==
  LET reflection == Item(report, "reflection")
      runtime == Item(report, "runtime")
      audio_defaults == Item(report, "audio_defaults")
      creds == Item(report, "credentials")
  IN  << <<"Google Assistant SDK self-diagnostics">>,
         <<"">>,
         <<"Reflection:">>,
         <<"  Philosophy:">> >>
      \o Bullets(Item(reflection, "philosophy"))
      \o << <<"  Existential questions:">> >>
      \o Bullets(Item(reflection, "existential_questions"))
      \o << <<"  Conversational prompts:">> >>
      \o Bullets(Item(reflection, "conversational_prompts"))
      \o << <<"  Learning notes:">> >>
      \o Bullets(Item(reflection, "learning_notes"))
      \o << <<"  Grounding:">> >>
      \o Bullets(Item(reflection, "grounding"))
      \o << <<"">>,
            <<"Runtime:">>,
            Field("  Python: ", runtime, "python_version"),
            Field("  Executable: ", runtime, "executable"),
            Field("  Platform: ", runtime, "platform"),
            Field("  CWD: ", runtime, "cwd"),
            Field("  Timestamp (UTC): ", runtime, "timestamp_utc"),
            <<"">>,
            <<"Audio defaults:">>,
            Field("  Sample rate: ", audio_defaults, "sample_rate"),
            Field("  Sample width: ", audio_defaults, "sample_width"),
            Field("  Iter size: ", audio_defaults, "iter_size"),
            Field("  Device block size: ", audio_defaults, "device_block_size"),
            Field("  Device flush size: ", audio_defaults, "device_flush_size"),
            Field("  Default input device: ", audio_defaults,
                  "default_input_device"),
            Field("  Default output device: ", audio_defaults,
                  "default_output_device"),
            <<"">>,
            <<"Credentials:">>,
            Field("  Path: ", creds, "credentials_path"),
            Field("  Exists: ", creds, "credentials_exists"),
            <<"">>,
            <<"Audio devices:">> >>
      \o DeviceLines(Item(report, "audio_devices"))

\* '\n'.join(lines) + '\n': the text ends with an empty line
render_text_report_newline(report) ==
  PyStr(Join(ReportLines(report)) \o <<"">>)

\* The str render_text_report returns, as the lines it is printed in
render_text_report(report) == PyStr(Join(ReportLines(report)))

----------------------------------------------------------------------------
\* json.dumps(report, indent=2, sort_keys=True)

\* The code points of the keys of the report
CodePoints ==
  [runtime |-> <<114, 117, 110, 116, 105, 109, 101>>,
   audio_defaults |-> <<97, 117, 100, 105, 111, 95, 100, 101, 102, 97, 117, 108, 116, 115>>,
   audio_devices |-> <<97, 117, 100, 105, 111, 95, 100, 101, 118, 105, 99, 101, 115>>,
   credentials |-> <<99, 114, 101, 100, 101, 110, 116, 105, 97, 108, 115>>,
   reflection |-> <<114, 101, 102, 108, 101, 99, 116, 105, 111, 110>>,
   timestamp_utc |-> <<116, 105, 109, 101, 115, 116, 97, 109, 112, 95, 117, 116, 99>>,
   python_version |-> <<112, 121, 116, 104, 111, 110, 95, 118, 101, 114, 115, 105, 111, 110>>,
   executable |-> <<101, 120, 101, 99, 117, 116, 97, 98, 108, 101>>,
   platform |-> <<112, 108, 97, 116, 102, 111, 114, 109>>,
   cwd |-> <<99, 119, 100>>,
   sample_rate |-> <<115, 97, 109, 112, 108, 101, 95, 114, 97, 116, 101>>,
   sample_width |-> <<115, 97, 109, 112, 108, 101, 95, 119, 105, 100, 116, 104>>,
   iter_size |-> <<105, 116, 101, 114, 95, 115, 105, 122, 101>>,
   device_block_size |-> <<100, 101, 118, 105, 99, 101, 95, 98, 108, 111, 99, 107, 95, 115, 105, 122, 101>>,
   device_flush_size |-> <<100, 101, 118, 105, 99, 101, 95, 102, 108, 117, 115, 104, 95, 115, 105, 122, 101>>,
   default_input_device |-> <<100, 101, 102, 97, 117, 108, 116, 95, 105, 110, 112, 117, 116, 95, 100, 101, 118, 105, 99, 101>>,
   default_output_device |-> <<100, 101, 102, 97, 117, 108, 116, 95, 111, 117, 116, 112, 117, 116, 95, 100, 101, 118, 105, 99, 101>>,
   index |-> <<105, 110, 100, 101, 120>>,
   name |-> <<110, 97, 109, 101>>,
   hostapi |-> <<104, 111, 115, 116, 97, 112, 105>>,
   max_input_channels |-> <<109, 97, 120, 95, 105, 110, 112, 117, 116, 95, 99, 104, 97, 110, 110, 101, 108, 115>>,
   max_output_channels |-> <<109, 97, 120, 95, 111, 117, 116, 112, 117, 116, 95, 99, 104, 97, 110, 110, 101, 108, 115>>,
   default_samplerate |-> <<100, 101, 102, 97, 117, 108, 116, 95, 115, 97, 109, 112, 108, 101, 114, 97, 116, 101>>,
   credentials_path |-> <<99, 114, 101, 100, 101, 110, 116, 105, 97, 108, 115, 95, 112, 97, 116, 104>>,
   credentials_exists |-> <<99, 114, 101, 100, 101, 110, 116, 105, 97, 108, 115, 95, 101, 120, 105, 115, 116, 115>>,
   philosophy |-> <<112, 104, 105, 108, 111, 115, 111, 112, 104, 121>>,
   existential_questions |-> <<101, 120, 105, 115, 116, 101, 110, 116, 105, 97, 108, 95, 113, 117, 101, 115, 116, 105, 111, 110, 115>>,
   conversational_prompts |-> <<99, 111, 110, 118, 101, 114, 115, 97, 116, 105, 111, 110, 97, 108, 95, 112, 114, 111, 109, 112, 116, 115>>,
   learning_notes |-> <<108, 101, 97, 114, 110, 105, 110, 103, 95, 110, 111, 116, 101, 115>>,
   grounding |-> <<103, 114, 111, 117, 110, 100, 105, 110, 103>>]

\* a < b on sequences of code points: Python's order of str
RECURSIVE LexLess(_, _)
LexLess(a, b) ==
  IF Len(b) = 0 THEN FALSE
  ELSE IF Len(a) = 0 THEN TRUE
  ELSE IF a[1] # b[1] THEN a[1] < b[1]
  ELSE LexLess(Tail(a), Tail(b))

KeyLess(k1, k2) == LexLess(CodePoints[k1], CodePoints[k2])

\* One item put into a list of items that is sorted by key
RECURSIVE Insert(_, _)
Insert(item, sorted) ==
  IF Len(sorted) = 0 THEN <<item>>
  ELSE IF KeyLess(item[1], sorted[1][1]) THEN <<item>> \o sorted
  ELSE <<sorted[1]>> \o Insert(item, Tail(sorted))

\* sort_keys left out: the items in insertion order
InsertionOrder(items) == items

\* sorted(dct.items()), which sort_keys=True makes the encoder iterate
RECURSIVE SortItems(_)
SortItems(items) ==
  IF Len(items) = 0 THEN <<>>
  ELSE Insert(items[1], SortItems(Tail(items)))

\* The document json.dumps writes, as the tree it parses back to: an object
\* lists its members in the order of its sorted keys, an array its elements in
\* the order of the list, and None, bools, numbers and strs are leaves
RECURSIVE JsonDumps(_)
JsonDumps(v) ==
  IF IsDict(v)
    THEN LET items == SortItems(v.dict)
         IN  [object |-> [i \in 1..Len(items) |->
                           <<items[i][1], JsonDumps(items[i][2])>>]]
  ELSE IF IsList(v)
    THEN [array |-> [i \in 1..Len(v.list) |-> JsonDumps(v.list[i])]]
  ELSE [scalar |-> v]

----------------------------------------------------------------------------
\* State machine

Unset == [unset |-> TRUE]

Collectors ==
  {"runtime", "audio_defaults", "audio_devices", "credentials", "reflection"}

\* The order in which Python evaluates the values of build_report's dict
\* display
EvalOrder ==
  <<"runtime", "audio_defaults", "audio_devices", "credentials", "reflection">>

Position(c) == CHOOSE i \in 1..Len(EvalOrder) : EvalOrder[i] = c

\* c is the next collector of the dict display
Turn(c) ==
  /\ pc = "build"
  /\ c \in pending
  /\ \A d \in pending : Position(c) <= Position(d)

\* c may be called when the collectors are tried in an arbitrary order
AnyTurn(c) ==
  /\ pc = "build"
  /\ c \in pending

\* No call of build_report has been made and nothing has been printed
Fresh ==
  /\ clock = 0
  /\ ret = [c \in Collectors |-> Unset]
  /\ calls = [c \in Collectors |-> 0]
  /\ buildCalls = 0
  /\ seen = <<>>
  /\ after = <<>>
  /\ returned = <<>>
  /\ stdout = <<>>
  /\ stderr = <<>>
  /\ exit_status = None

\* click has parsed the two options and calls main
Init ==
  /\ pc = "main"
  /\ pending = {}
  /\ credentials \in Paths
  /\ json_output \in BOOLEAN
  /\ host \in Hosts(Descriptors, Faults)
  /\ Fresh

\* The wall clock advances
Tick ==
  /\ clock < MaxClock
  /\ pc \in {"main", "build", "built"}
  /\ clock' = clock + 1
  /\ UNCHANGED <<pc, credentials, json_output, host, pending, ret, calls,
                 buildCalls, seen, after, returned, stdout, stderr,
                 exit_status>>

\* main calls build_report(credentials)
CallBuildReport ==
  /\ pc = "main"
  /\ pc' = "build"
  /\ buildCalls' = buildCalls + 1
  /\ pending' = Collectors
  /\ ret' = [c \in Collectors |-> Unset]
  /\ calls' = [c \in Collectors |-> 0]
  /\ seen' = Append(seen, [host |-> host, credentials_path |-> credentials])
  /\ UNCHANGED <<credentials, json_output, host, clock, after, returned,
                 stdout, stderr, exit_status>>

\* A collector returns value
Returns(c, value) ==
  /\ ret' = [ret EXCEPT ![c] = value]
  /\ calls' = [calls EXCEPT ![c] = @ + 1]
  /\ pending' = pending \ {c}
  /\ UNCHANGED <<pc, credentials, json_output, host, clock, buildCalls, seen,
                 after, returned, stdout, stderr, exit_status>>

\* The error is caught and reported as a document on standard output
RaisesReported(c, error) ==
  /\ calls' = [calls EXCEPT ![c] = @ + 1]
  /\ pc' = "failed"
  /\ stdout' = Append(stdout, [renderer |-> "json.dumps",
                               message |-> [scalar |-> PyText(error)]])
  /\ exit_status' = PyInt(1)
  /\ UNCHANGED <<credentials, json_output, host, clock, pending, ret,
                 buildCalls, seen, after, returned, stderr>>

\* A collector raises: the exception leaves build_report and main, and the
\* interpreter prints the traceback to stderr and exits with status 1
Raises(c, error) ==
  /\ calls' = [calls EXCEPT ![c] = @ + 1]
  /\ pc' = "failed"
  /\ stderr' = Append(stderr, error)
  /\ exit_status' = PyInt(1)
  /\ UNCHANGED <<credentials, json_output, host, clock, pending, ret,
                 buildCalls, seen, after, returned, stdout>>

RuntimeInfo == Returns("runtime", collect_runtime_info(clock))

AudioDefaults ==
  IF host.fault = "default"
    THEN Raises("audio_defaults", "sounddevice.PortAudioError")
    ELSE Returns("audio_defaults", collect_audio_defaults(host.default_device))

AudioDevices ==
  IF host.fault = "query_devices"
    THEN Raises("audio_devices", "sounddevice.PortAudioError")
    ELSE Returns("audio_devices", collect_audio_devices(host.devices))

CredentialsStatus ==
  Returns("credentials", collect_credentials_status(credentials, host.files))

Reflection == Returns("reflection", collect_reflection)

CollectRuntimeInfo == Turn("runtime") /\ RuntimeInfo

CollectAudioDefaults == Turn("audio_defaults") /\ AudioDefaults

CollectAudioDevices == Turn("audio_devices") /\ AudioDevices

CollectCredentialsStatus == Turn("credentials") /\ CredentialsStatus

CollectReflection == Turn("reflection") /\ Reflection

\* build_report returns its dict
BuildReturn ==
  /\ pc = "build"
  /\ pending = {}
  /\ pc' = "built"
  /\ returned' = Append(returned, build_report(ret))
  /\ after' = Append(after, host)
  /\ UNCHANGED <<credentials, json_output, host, clock, pending, ret, calls,
                 buildCalls, seen, stdout, stderr, exit_status>>

\* main's local variable report
report == returned[Len(returned)]

\* click.echo(message): one write to standard output
echo(renderer, message) ==
  /\ stdout' = Append(stdout, [renderer |-> renderer, message |-> message])
  /\ pc' = "done"
  /\ exit_status' = PyInt(0)
  /\ UNCHANGED <<credentials, json_output, host, clock, pending, ret, calls,
                 buildCalls, seen, after, returned, stderr>>

EchoJson ==
  /\ pc = "built"
  /\ json_output
  /\ echo("json.dumps", JsonDumps(report))

\* The text report is printed whatever the flag
EchoTextAlways ==
  /\ pc = "built"
  /\ echo("render_text_report", render_text_report(report))

EchoText ==
  /\ pc = "built"
  /\ ~json_output
  /\ echo("render_text_report", render_text_report(report))

Next ==
  \/ Tick
  \/ CallBuildReport
  \/ CollectRuntimeInfo
  \/ CollectAudioDefaults
  \/ CollectAudioDevices
  \/ CollectCredentialsStatus
  \/ CollectReflection
  \/ BuildReturn
  \/ EchoJson
  \/ EchoText

Spec == Init /\ [][Next]_vars

----------------------------------------------------------------------------
\* The device enumerator alone, over every subset of the descriptor's fields

InitDevices ==
  /\ pc = "build"
  /\ pending = {"audio_devices"}
  /\ credentials = DEFAULT_CREDENTIALS_PATH
  /\ json_output = FALSE
  /\ host \in [devices : SeqsUpTo(AllDescriptors \cup Descriptors, MaxDevices),
               default_device : {<<None, None>>},
               files : {{}},
               fault : {"none"}]
  /\ Fresh

EnumerateDevices == AnyTurn("audio_devices") /\ AudioDevices

NextDevices == EnumerateDevices

SpecDevices == InitDevices /\ [][NextDevices]_vars

----------------------------------------------------------------------------
\* build_report called twice, the host changing or not between the calls

TwiceDescriptors == { Descriptor(FieldNames), Descriptor({}), HeadsetDevice }

InitTwice ==
  /\ pc = "main"
  /\ pending = {}
  /\ credentials \in Paths
  /\ json_output = FALSE
  /\ host \in Hosts(TwiceDescriptors, {"none"})
  /\ Fresh

\* What may happen to the host between two calls: nothing, a device is
\* plugged in or removed, the default devices change, files appear or vanish
HostChanges(h) ==
  {h}
  \cup (IF Len(h.devices) < MaxDevices
          THEN {[h EXCEPT !.devices = Append(@, Descriptor(FieldNames))]}
          ELSE {})
  \cup (IF Len(h.devices) > 0
          THEN {[h EXCEPT !.devices = SubSeq(@, 1, Len(@) - 1)]}
          ELSE {})
  \cup {[h EXCEPT !.default_device = p] : p \in DefaultPairs}
  \cup {[h EXCEPT !.files = f] : f \in FileSets}

\* The caller calls build_report a second time, with any credentials path
CallAgain ==
  /\ pc = "built"
  /\ Len(returned) < 2
  /\ pc' = "main"
  /\ host' \in HostChanges(host)
  /\ credentials' \in Paths
  /\ UNCHANGED <<json_output, clock, pending, ret, calls, buildCalls, seen,
                 after, returned, stdout, stderr, exit_status>>

NextTwice ==
  \/ Tick
  \/ CallBuildReport
  \/ CollectRuntimeInfo
  \/ CollectAudioDefaults
  \/ CollectAudioDevices
  \/ CollectCredentialsStatus
  \/ CollectReflection
  \/ BuildReturn
  \/ CallAgain

SpecTwice == InitTwice /\ [][NextTwice]_vars

----------------------------------------------------------------------------
\* build_report with its collectors called in an arbitrary order

InitAnyOrder ==
  /\ pc = "main"
  /\ pending = {}
  /\ credentials \in Paths
  /\ json_output = FALSE
  /\ host \in Hosts(Descriptors, Faults)
  /\ Fresh

AnyOrderRuntimeInfo == AnyTurn("runtime") /\ RuntimeInfo

AnyOrderAudioDefaults == AnyTurn("audio_defaults") /\ AudioDefaults

AnyOrderAudioDevices == AnyTurn("audio_devices") /\ AudioDevices

AnyOrderCredentialsStatus == AnyTurn("credentials") /\ CredentialsStatus

AnyOrderReflection == AnyTurn("reflection") /\ Reflection

NextAnyOrder ==
  \/ Tick
  \/ CallBuildReport
  \/ AnyOrderRuntimeInfo
  \/ AnyOrderAudioDefaults
  \/ AnyOrderAudioDevices
  \/ AnyOrderCredentialsStatus
  \/ AnyOrderReflection
  \/ BuildReturn

SpecAnyOrder == InitAnyOrder /\ [][NextAnyOrder]_vars

----------------------------------------------------------------------------
\* Properties

\* The lines of the text main has printed
PrintedLines == stdout[1].message.str

\* The position of the first line of the printed text that reads line
LineAt(line) ==
  CHOOSE i \in 1..Len(PrintedLines) :
    /\ PrintedLines[i] = line
    /\ \A j \in 1..(i - 1) : PrintedLines[j] # line

HasLine(line) == \E i \in 1..Len(PrintedLines) : PrintedLines[i] = line

TextDone == pc = "done" /\ ~json_output

JsonDone == pc = "done" /\ json_output

\* C1: when a query of the host audio subsystem raises, build_report returns
\* no report, nothing at all is printed to standard output, and once the
\* failing collector has been called the process has ended with a traceback
\* and status 1.
C1_AudioFailureIsFatal ==
  /\ host.fault # "none" =>
       /\ returned = <<>>
       /\ stdout = <<>>
       /\ pc \notin {"built", "done"}
       /\ exit_status # PyInt(0)
  /\ (host.fault = "default" /\ calls["audio_defaults"] > 0) \/
     (host.fault = "query_devices" /\ calls["audio_devices"] > 0) =>
       /\ pc = "failed"
       /\ exit_status = PyInt(1)
       /\ stderr = <<"sounddevice.PortAudioError">>
  /\ pc = "failed" => host.fault # "none" /\ stdout = <<>>

C1_Witness ==
  /\ pc = "failed"
  /\ host.fault = "query_devices"
  /\ Len(host.devices) > 0
  /\ calls["audio_defaults"] = 1

\* C2: a run of main that ends calls build_report once and prints one report
\* through one renderer, json.dumps exactly when --json is set and
\* render_text_report otherwise; nothing is printed before build_report has
\* returned, nothing is printed twice, and the status is 0.
C2_OneReportOneRenderer ==
  /\ buildCalls <= 1
  /\ Len(stdout) <= 1
  /\ stdout # <<>> => Len(returned) = 1 /\ pc = "done"
  /\ pc = "done" =>
       /\ buildCalls = 1
       /\ Len(stdout) = 1
       /\ exit_status = PyInt(0)
       /\ stderr = <<>>
       /\ json_output =>
            /\ stdout[1].renderer = "json.dumps"
            /\ stdout[1].message = JsonDumps(returned[1])
            /\ "object" \in DOMAIN stdout[1].message
       /\ ~json_output =>
            /\ stdout[1].renderer = "render_text_report"
            /\ stdout[1].message = render_text_report(returned[1])
            /\ IsStr(stdout[1].message)

C2_Witness == JsonDone /\ Len(host.devices) = MaxDevices

\* C3: collect_audio_devices returns one record per device of the driver's
\* list, in the driver's order, and the record at 0-based position i has
\* index i.
C3_IndexIsPosition ==
  ret["audio_devices"] # Unset =>
    LET records == ret["audio_devices"].list
    IN  /\ Len(records) = Len(host.devices)
        /\ \A i \in 1..Len(records) :
             /\ Item(records[i], "index") = PyInt(i - 1)
             /\ \A f \in FieldNames :
                  Item(records[i], f) = Get(host.devices[i], f)
        /\ \A i, j \in 1..Len(records) :
             i < j => Item(records[i], "index").int < Item(records[j], "index").int

C3_Witness ==
  /\ ret["audio_devices"] # Unset
  /\ Len(ret["audio_devices"].list) = 2
  /\ host.devices[1] # host.devices[2]

\* C6: every record of the enumerator has exactly the six fields index,
\* name, hostapi, max_input_channels, max_output_channels and
\* default_samplerate; a field the descriptor carries is copied, a field it
\* lacks is None, and the enumeration does not fail.
C6_AllFieldsPresent ==
  ret["audio_devices"] # Unset =>
    /\ pc # "failed"
    /\ \A i \in 1..Len(ret["audio_devices"].list) :
         LET record == ret["audio_devices"].list[i]
             device == host.devices[i]
         IN  /\ Keys(record) = <<"index", "name", "hostapi",
                                 "max_input_channels", "max_output_channels",
                                 "default_samplerate">>
             /\ \A f \in FieldNames :
                  IF f \in KeySet(device)
                    THEN Item(record, f) = Item(device, f)
                    ELSE Item(record, f) = None

C6_Witness ==
  /\ ret["audio_devices"] # Unset
  /\ \E i \in 1..Len(host.devices) :
       /\ KeySet(host.devices[i]) = {"name", "max_input_channels"}
       /\ Item(ret["audio_devices"].list[i], "hostapi") = None
       /\ Item(ret["audio_devices"].list[i], "name") = PyText("Built-in Mic")

\* C4: the credentials record of every report holds the path that was
\* passed to build_report, character for character, and its flag is true
\* exactly when the path exists in the filesystem of that call; the record
\* under the report's credentials key is the record the collector returned.
C4_CredentialsStatus ==
  /\ \A k \in 1..Len(returned) :
       LET status == Item(returned[k], "credentials")
           P == seen[k].credentials_path
       IN  /\ Keys(status) = <<"credentials_path", "credentials_exists">>
           /\ Item(status, "credentials_path") = PyText(P)
           /\ Item(status, "credentials_exists")
                = PyBool(P \in seen[k].host.files)
  /\ pc = "built" => Item(returned[Len(returned)], "credentials") = ret["credentials"]

C4_Witness ==
  /\ Len(returned) = 2
  /\ seen[1].credentials_path = "~/credentials.json"
  /\ seen[2].credentials_path = DEFAULT_CREDENTIALS_PATH
  /\ seen[1].host.files # {}
  /\ Item(Item(returned[1], "credentials"), "credentials_exists") = PyBool(FALSE)
  /\ Item(Item(returned[2], "credentials"), "credentials_exists") = PyBool(TRUE)

\* The keys of a JSON object, in the order the document lists them
Members(object) == [i \in 1..Len(object.object) |-> object.object[i][1]]

Member(object, key) ==
  object.object[CHOOSE i \in 1..Len(object.object) : object.object[i][1] = key][2]

StrictlyAscending(keys) ==
  \A i \in 1..(Len(keys) - 1) : KeyLess(keys[i], keys[i + 1])

\* C5: every report has exactly the five top-level keys runtime,
\* audio_defaults, audio_devices, credentials and reflection, and the JSON
\* document lists the keys of every object in ascending order: the top level,
\* the four nested records and every device record.
C5_KeysExactAndSorted ==
  /\ \A k \in 1..Len(returned) :
       /\ Len(returned[k].dict) = 5
       /\ KeySet(returned[k]) = {"runtime", "audio_defaults", "audio_devices",
                                 "credentials", "reflection"}
  /\ JsonDone =>
       LET doc == stdout[1].message
           devices == Member(doc, "audio_devices").array
       IN  /\ Members(doc) = <<"audio_defaults", "audio_devices",
                               "credentials", "reflection", "runtime">>
           /\ StrictlyAscending(Members(doc))
           /\ \A key \in {"runtime", "audio_defaults", "credentials",
                          "reflection"} :
                /\ StrictlyAscending(Members(Member(doc, key)))
                /\ {Members(Member(doc, key))[i] :
                      i \in 1..Len(Members(Member(doc, key)))}
                     = KeySet(Item(returned[1], key))
           /\ Len(devices) = Len(host.devices)
           /\ \A i \in 1..Len(devices) :
                Members(devices[i]) =
                  <<"default_samplerate", "hostapi", "index",
                    "max_input_channels", "max_output_channels", "name">>

C5_Witness ==
  /\ JsonDone
  /\ Len(host.devices) = 2
  /\ Members(Member(stdout[1].message, "credentials"))
       = <<"credentials_exists", "credentials_path">>

ReflectionHeaders ==
  <<"  Philosophy:", "  Existential questions:", "  Conversational prompts:",
    "  Learning notes:", "  Grounding:">>

\* C7: the printed text report holds the five reflection headers in the
\* order Philosophy, Existential questions, Conversational prompts, Learning
\* notes, Grounding, whatever the devices; with no device its last line is
\* the header 'Audio devices:'.
C7_ReflectionHeaders ==
  TextDone =>
    /\ \A h \in 1..Len(ReflectionHeaders) : HasLine(ReflectionHeaders[h])
    /\ \A h \in 1..(Len(ReflectionHeaders) - 1) :
         LineAt(ReflectionHeaders[h]) < LineAt(ReflectionHeaders[h + 1])
    /\ LineAt("Reflection:") < LineAt(ReflectionHeaders[1])
    /\ LineAt(ReflectionHeaders[5]) < LineAt("Runtime:")
    /\ Len(host.devices) = 0 =>
         /\ PrintedLines[Len(PrintedLines)] = "Audio devices:"
         /\ LineAt("Audio devices:") = Len(PrintedLines)

C7_Witness == TextDone /\ Len(host.devices) = 0

\* The line '[index] name (in:N out:M, rate:R)' of a device record
ExpectedDeviceLine(device) ==
  <<"  [">> \o Str(Item(device, "index")) \o <<"] ">>
  \o Str(Item(device, "name"))
  \o <<" (in:">> \o Str(Item(device, "max_input_channels"))
  \o <<" out:">> \o Str(Item(device, "max_output_channels"))
  \o <<", rate:">> \o Str(Item(device, "default_samplerate")) \o <<")">>

RECURSIVE Glue(_)
Glue(parts) == IF Len(parts) = 0 THEN "" ELSE parts[1] \o Glue(Tail(parts))

\* C8: the text report lists the sections Reflection, Runtime (five
\* fields), Audio defaults (seven fields), Credentials (two fields) and Audio
\* devices in this order, and after the header 'Audio devices:' come exactly
\* as many lines as the report has devices, the k-th being
\* '[index] name (in:N out:M, rate:R)' of the k-th device, None printed as
\* 'None'.
C8_OneLinePerDevice ==
  TextDone =>
    LET devices == Item(returned[1], "audio_devices").list
        first == LineAt("Audio devices:")
    IN  /\ LineAt("Reflection:") < LineAt("Runtime:")
        /\ LineAt("Audio defaults:") = LineAt("Runtime:") + 7
        /\ LineAt("Credentials:") = LineAt("Audio defaults:") + 9
        /\ LineAt("Audio devices:") = LineAt("Credentials:") + 4
        /\ Len(PrintedLines) - first = Len(devices)
        /\ \A k \in 1..Len(devices) :
             /\ first + k <= Len(PrintedLines)
             /\ PrintedLines[first + k] = Glue(ExpectedDeviceLine(devices[k]))

\* C8 for the reports whose device names hold no line break
C8_OneLinePerSingleLineName ==
  (\A k \in 1..Len(host.devices) : Len(Str(Get(host.devices[k], "name"))) = 1)
    => C8_OneLinePerDevice

C8_Witness ==
  /\ TextDone
  /\ Len(host.devices) = 2
  /\ host.devices[1] = Descriptor({})
  /\ PrintedLines[Len(PrintedLines) - 1] = "  [0] None (in:None out:None, rate:None)"

\* d with the value of key k replaced by v
Put(d, k, v) ==
  PyDict([i \in 1..Len(d.dict) |->
            IF d.dict[i][1] = k THEN <<k, v>> ELSE d.dict[i]])

\* A report without the time it was built at
WithoutTimestamp(r) ==
  Put(r, "runtime", Put(Item(r, "runtime"), "timestamp_utc", None))

AudioConstantNames ==
  {"sample_rate", "sample_width", "iter_size", "device_block_size",
   "device_flush_size"}

\* C9: a call of build_report leaves the host as it found it; two calls
\* with the same credentials path on the same host state return reports that
\* differ at most in runtime.timestamp_utc; and the five audio constants and
\* the reflection block are the same in every report, whatever the host.
C9_Deterministic ==
  /\ \A k \in 1..Len(after) : after[k] = seen[k].host
  /\ pc = "build" => host = seen[Len(seen)].host
  /\ \A i, j \in 1..Len(returned) :
       /\ seen[i] = seen[j] =>
            WithoutTimestamp(returned[i]) = WithoutTimestamp(returned[j])
       /\ \A c \in AudioConstantNames :
            Item(Item(returned[i], "audio_defaults"), c)
              = Item(Item(returned[j], "audio_defaults"), c)
       /\ Item(returned[i], "reflection") = Item(returned[j], "reflection")

C9_Witness ==
  /\ Len(returned) = 2
  /\ seen[1] = seen[2]
  /\ Len(seen[1].host.devices) > 0
  /\ returned[1] # returned[2]

\* C10: a call of build_report that returns has invoked each of the five
\* collectors once, and the report holds under each key what that collector
\* returned; in whatever order the collectors are invoked, the report is the
\* one the host, the credentials path and the clock at the call of the
\* runtime collector determine.
C10_EachCollectorOnce ==
  /\ \A c \in Collectors : calls[c] <= 1
  /\ pc = "built" =>
       LET r == returned[1]
           defaults == Item(r, "audio_defaults")
       IN  /\ \A c \in Collectors : calls[c] = 1 /\ Item(r, c) = ret[c]
           /\ Keys(r) = EvalOrder
           /\ \E t \in 0..clock : Item(r, "runtime") = collect_runtime_info(t)
           /\ Item(defaults, "default_input_device") = host.default_device[1]
           /\ Item(defaults, "default_output_device") = host.default_device[2]
           /\ \A c \in AudioConstantNames : IsInt(Item(defaults, c))
           /\ Item(r, "audio_devices") = collect_audio_devices(host.devices)
           /\ Item(r, "credentials")
                = collect_credentials_status(credentials, host.files)
           /\ Item(r, "reflection") = collect_reflection
           /\ after[1] = seen[1].host

C10_Witness ==
  /\ pc = "built"
  /\ Len(host.devices) = 2
  /\ Item(Item(returned[1], "runtime"), "timestamp_utc")
       = PyText("2017-04-27T10:15:30.000001Z")

====
